---- MODULE Spec2Model ----
(***************************************************************************)
(* Storage-budget, durability and single-level undo layer of the document  *)
(* manager: the localStorage utilities (storage-utils) and the Dashboard   *)
(* handlers that orchestrate them.                                         *)
(*                                                                         *)
(* A document is abstracted to its id and the length, in characters, of    *)
(* its JSON serialisation; every size of the code is computed from these   *)
(* lengths exactly as the code computes it from the strings.               *)
(***************************************************************************)
EXTENDS Integers, Sequences, FiniteSets, TLC

(* ----------------------------- bounds ---------------------------------- *)

\* Number of distinct document ids the model draws from.
NumIds == 2

\* Longest in-memory collection an add is allowed to build.
MaxDocs == 2

\* Number of categories the user may add on top of the seed list.
MaxNewCategories == 1

\* Longest collection the delete-and-restore runs (SpecUndo) start from.
MaxUndoLen == 3

\* Longest collection the single-restore runs (SpecRestore) start from.
MaxRestoreLen == 6

Ids == 1..NumIds

\* JSON lengths (characters) a document may have: SmallLen for a document
\* that is little more than its metadata, LargeLen for one carrying a file of
\* more than a quarter of the quota (5 MiB are 2621440 characters).
SmallLen == 200

LargeLen == 1500000

DocLens == {SmallLen, LargeLen}

\* Longest title, notes text and search query of the filter runs.
MaxStrLen == 2

(* ------------------------ optional values ------------------------------ *)

\* null / undefined / a missing localStorage item
None == <<>>

Some(v) == <<v>>

IsSome(o) == Len(o) = 1

Get(o) == o[1]

\* A property that is present with the value undefined (a missing property
\* is None): both read as undefined.
Undefined == <<"undefined", "undefined">>

IsUndefined(o) == Len(o) = 2

\* object.property
PropertyRead(o) == IF IsSome(o) THEN o ELSE None

\* A stored item whose text is not valid JSON, such as the two characters {[
CorruptItem == <<"{", "[">>

IsCorrupt(item) == Len(item) = 2

(* ------------------------------ documents ------------------------------ *)

\* A string is the sequence of its characters.
Chars == {"a", "A", "b"}

Strings(n) == UNION {[1..k -> Chars] : k \in 0..n}

\* The title and category of the documents whose text plays no part.
DefaultTitle == <<"a">>

DefaultCategory == "personal"

\* The Document type: id, title, category and optional notes; len stands for
\* the rest (file data included) through the length of the document's JSON.
Document(id, len) ==
    [id |-> id, len |-> len, title |-> DefaultTitle, notes |-> None,
     category |-> DefaultCategory]

Doc == {Document(id, len) : id \in Ids, len \in DocLens}

(* --------------------------- storage-utils ----------------------------- *)

LOCALSTORAGE_LIMIT == 5 * 1024 * 1024

DOCUMENTS_KEY == "documents"

LAST_DELETED_DOCUMENT_KEY == "lastDeletedDocument"

LAST_DELETED_DOCUMENT_INDEX_KEY == "lastDeletedDocumentIndex"

CATEGORIES_KEY == "categories"

\* testKey of isStorageAvailable, which is also the value it writes
TEST_KEY == "__storage_test__"

StorageKeys ==
    {DOCUMENTS_KEY, LAST_DELETED_DOCUMENT_KEY, LAST_DELETED_DOCUMENT_INDEX_KEY, CATEGORIES_KEY,
     TEST_KEY}

\* key.length of each storage key
KeyLength(key) ==
    CASE key = DOCUMENTS_KEY -> 9
      [] key = LAST_DELETED_DOCUMENT_KEY -> 19
      [] key = LAST_DELETED_DOCUMENT_INDEX_KEY -> 24
      [] key = CATEGORIES_KEY -> 10
      [] key = TEST_KEY -> 16

\* JSON.stringify(category).length of a category record such as
\* {"category":"personal","name":"Personal","color":"blue"}
CategoryJsonLength == 56

initialCategories == <<"personal", "financial", "medical", "legal", "education", "property">>

NewCategories == {"custom"}

RECURSIVE SumLen(_)
SumLen(docs) == IF docs = <<>> THEN 0 ELSE Head(docs).len + SumLen(Tail(docs))

\* JSON.stringify(documents).length: brackets, the elements, the commas
DocumentsJsonLength(docs) ==
    2 + SumLen(docs) + (IF Len(docs) > 1 THEN Len(docs) - 1 ELSE 0)

CategoriesJsonLength(cats) ==
    2 + Len(cats) * CategoryJsonLength + (IF Len(cats) > 1 THEN Len(cats) - 1 ELSE 0)

\* index.toString().length
IndexStringLength(i) == IF i < 10 THEN 1 ELSE 2

\* value.length of the string stored under a key
ValueLength(key, v) ==
    CASE key = DOCUMENTS_KEY -> DocumentsJsonLength(v)
      [] key = LAST_DELETED_DOCUMENT_KEY -> v.len
      [] key = LAST_DELETED_DOCUMENT_INDEX_KEY -> IndexStringLength(v)
      [] key = CATEGORIES_KEY -> CategoriesJsonLength(v)
      [] key = TEST_KEY -> KeyLength(v)

ItemLength(store, key) ==
    IF IsSome(store[key]) THEN KeyLength(key) + ValueLength(key, Get(store[key]))
    ELSE IF IsCorrupt(store[key]) THEN KeyLength(key) + Len(store[key])
    ELSE 0

EmptyStore == [key \in StorageKeys |-> None]

Max(a, b) == IF a > b THEN a ELSE b

\* getLocalStorageUsage().used: two bytes per character of every key and value
UsedBytes(store) ==
    2 * (ItemLength(store, DOCUMENTS_KEY) + ItemLength(store, LAST_DELETED_DOCUMENT_KEY)
         + ItemLength(store, LAST_DELETED_DOCUMENT_INDEX_KEY) + ItemLength(store, CATEGORIES_KEY)
         + ItemLength(store, TEST_KEY))

\* getLocalStorageUsage().available without Math.max
AvailableBytes_Unclamped(store) == LOCALSTORAGE_LIMIT - UsedBytes(store)

\* getLocalStorageUsage().available
AvailableBytes(store) == Max(0, LOCALSTORAGE_LIMIT - UsedBytes(store))

\* getLocalStorageUsage().percentUsed > 80
PercentUsedOver80(store) == UsedBytes(store) * 100 > 80 * LOCALSTORAGE_LIMIT

\* hasEnoughStorageSpace measured against the whole quota instead of what is
\* left of it.
hasEnoughStorageSpace_IgnoresUsage(store, dataSize) == dataSize <= LOCALSTORAGE_LIMIT

hasEnoughStorageSpace(store, dataSize) == dataSize <= AvailableBytes(store)

\* estimateDocumentSize that gives every document the same size.
estimateDocumentSize_Flat(document) == 2

estimateDocumentSize(document) == document.len * 2

\* localStorage.setItem. The browser enforces its own limit: a write that makes
\* the store larger is accepted or refused (QuotaExceededError) as the browser
\* decides (accept); a refused write leaves the store as it was. A write that
\* does not grow the store is never refused.
SetItem(store, key, v, accept) ==
    LET written == [store EXCEPT ![key] = Some(v)]
    IN  IF accept \/ UsedBytes(written) <= UsedBytes(store)
        THEN [store |-> written, threw |-> FALSE]
        ELSE [store |-> store, threw |-> TRUE]

RemoveItem(store, key) == [store EXCEPT ![key] = None]

Success == [success |-> TRUE, error |-> ""]

Failure(msg) == [success |-> FALSE, error |-> msg]

\* JSON.stringify that leaves the notes out of every document.
JsonStringify_DropsNotes(docs) == [i \in 1..Len(docs) |-> [docs[i] EXCEPT !.notes = None]]

\* JSON.stringify(documents): the text is given by the objects and properties
\* written in it; a property whose value is undefined is not written.
JsonStringify(docs) ==
    [i \in 1..Len(docs) |->
        [docs[i] EXCEPT !.notes = IF IsUndefined(docs[i].notes) THEN None ELSE docs[i].notes]]

\* JSON.parse(text) throws a SyntaxError on a text that is not JSON
JsonParseThrows(item) == IsCorrupt(item)

\* JSON.parse(text) of a text JSON.stringify wrote: the objects with exactly
\* the properties written in the text
JsonParse(item) == Get(item)

\* The result of a handler that called no save.
NoResult == [success |-> TRUE, error |-> "not called"]

\* saveDocuments without the capacity pre-check: the write is attempted at once.
saveDocuments_NoPrecheck(store, docs, accept) ==
    LET w == SetItem(store, DOCUMENTS_KEY, JsonStringify(docs), accept)
    IN  IF w.threw
        THEN [store |-> store, result |-> Failure("Storage full"), threw |-> FALSE]
        ELSE [store |-> w.store, result |-> Success, threw |-> FALSE]

\* saveDocuments whose catch block passes the exception on.
saveDocuments_Rethrows(store, docs, accept) ==
    LET dataSize == DocumentsJsonLength(JsonStringify(docs)) * 2
    IN  IF ~hasEnoughStorageSpace(store, dataSize)
        THEN [store |-> store, result |-> Failure("Not enough storage space"),
              threw |-> FALSE]
        ELSE LET w == SetItem(store, DOCUMENTS_KEY, JsonStringify(docs), accept)
             IN  IF w.threw
                 THEN [store |-> store, result |-> Failure("Storage full"), threw |-> TRUE]
                 ELSE [store |-> w.store, result |-> Success, threw |-> FALSE]

\* The whole body is inside try/catch and the catch returns a result for
\* every exception: threw, whether an exception leaves the function, is
\* never TRUE.
saveDocuments(store, docs, accept) ==
    LET dataSize == DocumentsJsonLength(JsonStringify(docs)) * 2
    IN  IF ~hasEnoughStorageSpace(store, dataSize)
        THEN [store |-> store, result |-> Failure("Not enough storage space"),
              threw |-> FALSE]
        ELSE LET w == SetItem(store, DOCUMENTS_KEY, JsonStringify(docs), accept)
             IN  IF w.threw
                 THEN [store |-> store, result |-> Failure("Storage full"), threw |-> FALSE]
                 ELSE [store |-> w.store, result |-> Success, threw |-> FALSE]

\* loadDocuments has no try/catch: the SyntaxError of JSON.parse leaves it.
loadDocumentsThrows(store) == JsonParseThrows(store[DOCUMENTS_KEY])

\* The value loadDocuments returns when it returns.
loadDocuments(store) ==
    IF store[DOCUMENTS_KEY] # None /\ ~loadDocumentsThrows(store)
    THEN JsonParse(store[DOCUMENTS_KEY])
    ELSE <<>>

\* saveLastDeletedDocument with a slot that is not overwritten while it is in
\* use: the record of the earlier deletion stays.
saveLastDeletedDocument_KeepFirst(store, document, index, acceptDoc, acceptIndex) ==
    IF IsSome(store[LAST_DELETED_DOCUMENT_KEY])
    THEN [store |-> store, threw |-> FALSE]
    ELSE LET w1 == SetItem(store, LAST_DELETED_DOCUMENT_KEY, document, acceptDoc)
             w2 == SetItem(w1.store, LAST_DELETED_DOCUMENT_INDEX_KEY, index, acceptIndex)
         IN  IF w1.threw THEN w1 ELSE w2

\* Two setItem calls, not caught: the second is not reached when the first
\* throws. threw tells the caller that the exception propagates.
saveLastDeletedDocument(store, document, index, acceptDoc, acceptIndex) ==
    LET w1 == SetItem(store, LAST_DELETED_DOCUMENT_KEY, document, acceptDoc)
        w2 == SetItem(w1.store, LAST_DELETED_DOCUMENT_INDEX_KEY, index, acceptIndex)
    IN  IF w1.threw THEN w1 ELSE w2

loadLastDeletedDocument(store) == store[LAST_DELETED_DOCUMENT_KEY]

loadLastDeletedDocumentIndex(store) ==
    IF IsSome(store[LAST_DELETED_DOCUMENT_INDEX_KEY])
    THEN Get(store[LAST_DELETED_DOCUMENT_INDEX_KEY])
    ELSE -1

\* clearLastDeletedDocument that forgets the document item.
clearLastDeletedDocument_OnlyIndex(store) == RemoveItem(store, LAST_DELETED_DOCUMENT_INDEX_KEY)

clearLastDeletedDocument(store) ==
    RemoveItem(RemoveItem(store, LAST_DELETED_DOCUMENT_KEY), LAST_DELETED_DOCUMENT_INDEX_KEY)

hasLastDeletedDocument(store) == store[LAST_DELETED_DOCUMENT_KEY] # None

saveCategories(store, cats, accept) ==
    LET w == SetItem(store, CATEGORIES_KEY, cats, accept)
    IN  IF w.threw
        THEN [store |-> store, result |-> Failure("Storage full")]
        ELSE [store |-> w.store, result |-> Success]

loadCategoriesThrows(store) == JsonParseThrows(store[CATEGORIES_KEY])

loadCategories(store) ==
    IF store[CATEGORIES_KEY] # None /\ ~loadCategoriesThrows(store)
    THEN JsonParse(store[CATEGORIES_KEY])
    ELSE initialCategories

\* isStorageAvailable whose probe leaves the test key in the store.
isStorageAvailable_KeepsTestKey(store, accept) ==
    LET w == SetItem(store, TEST_KEY, TEST_KEY, accept)
    IN  [store |-> w.store, available |-> ~w.threw]

\* The probe writes the test key and removes it; the exception of a refused
\* write is caught and the probe reports false.
isStorageAvailable(store, accept) ==
    LET w == SetItem(store, TEST_KEY, TEST_KEY, accept)
    IN  IF w.threw
        THEN [store |-> w.store, available |-> FALSE]
        ELSE [store |-> RemoveItem(w.store, TEST_KEY), available |-> TRUE]

(* ------------------------------ Dashboard ------------------------------ *)

VARIABLES
    localStorage,       \* the browser's key-value store: key -> None | Some(value)
    documents,          \* useState<Document[]>: the in-memory collection
    categories,         \* useState<Category[]>
    storageAvailable,   \* useState(true), set by loadData
    storageWarning,     \* useState<string | null>: TRUE when a warning is shown
    deleteDialogOpen,   \* useState(false)
    documentToDelete,   \* useState<Document | null>
    hasDeletedDoc,      \* useState(false): shows the restore button
    searchQuery,        \* useState(""): the text of the search box
    selectedCategory,   \* useState<string | null>(null): the category filter
    timers,             \* the setTimeout callbacks of the page that have not run yet
    uploadDialogOpen,   \* useState(false): the upload dialog is shown
    droppedFile,        \* useState<File | null>(null): the file dropped on the list
    buttonFile,         \* DocumentUploadButton's file state, the form's initialFile
    editingDocument,    \* DocumentList's useState<Document | null>(null)
    file,               \* DocumentForm's useState<File | null>(null)
    fileError,          \* DocumentForm's useState<string | null>(null)
    formFile,           \* the value of the form's "file" field
    inputFiles,         \* the selection the file input element holds
    isUploading,        \* DocumentForm's useState(false): disables the form's controls
    encoding,           \* the onSubmit calls that wait for fileToBase64
    onSaveArg,          \* the latest onSave call of the mounted form
    toasts,             \* the toast() calls of the latest handler
    result              \* the result of the latest handler's save call

\* the state of the two dialogs that hold a DocumentForm, and of the form
formVars ==
    <<uploadDialogOpen, droppedFile, buttonFile, editingDocument, file, fileError, formFile,
      inputFiles, isUploading, encoding, onSaveArg>>

vars ==
    <<localStorage, documents, categories, storageAvailable, storageWarning,
      deleteDialogOpen, documentToDelete, hasDeletedDoc, searchQuery, selectedCategory,
      timers, formVars, toasts, result>>

\* the filter state of the page
view == <<searchQuery, selectedCategory>>

\* ids of a collection
IdsOf(docs) == {docs[i].id : i \in 1..Len(docs)}

\* A removal that drops the first document of the collection, whatever its id.
FilterOut_First(docs, id) == IF docs = <<>> THEN <<>> ELSE Tail(docs)

\* documents.filter((doc) => doc.id !== id)
RECURSIVE FilterOut(_, _)
FilterOut(docs, id) ==
    IF docs = <<>> THEN <<>>
    ELSE IF Head(docs).id = id THEN FilterOut(Tail(docs), id)
         ELSE <<Head(docs)>> \o FilterOut(Tail(docs), id)

\* A replacement that appends the document when no document has its id.
MapReplace_Upsert(docs, updatedDoc) ==
    IF updatedDoc.id \in IdsOf(docs)
    THEN [i \in 1..Len(docs) |-> IF docs[i].id = updatedDoc.id THEN updatedDoc ELSE docs[i]]
    ELSE Append(docs, updatedDoc)

\* documents.map((doc) => (doc.id === updatedDoc.id ? updatedDoc : doc))
MapReplace(docs, updatedDoc) ==
    [i \in 1..Len(docs) |-> IF docs[i].id = updatedDoc.id THEN updatedDoc ELSE docs[i]]

\* The updater without the splice: the document always goes to the end.
RestoreInsert_Append(prevDocuments, lastDeletedIndex, lastDeletedDocument) ==
    Append(prevDocuments, lastDeletedDocument)

\* The array built by the setDocuments updater of handleUndoDelete: splice at
\* the stored index when 0 <= index <= length, push otherwise.
RestoreInsert(prevDocuments, lastDeletedIndex, lastDeletedDocument) ==
    IF lastDeletedIndex >= 0 /\ lastDeletedIndex <= Len(prevDocuments)
    THEN SubSeq(prevDocuments, 1, lastDeletedIndex) \o <<lastDeletedDocument>>
         \o SubSeq(prevDocuments, lastDeletedIndex + 1, Len(prevDocuments))
    ELSE Append(prevDocuments, lastDeletedDocument)

\* String.prototype.toLowerCase
ToLowerCase(str) == [i \in 1..Len(str) |-> IF str[i] = "A" THEN "a" ELSE str[i]]

\* includes that only looks at the start of the string.
Includes_StartsWith(str, searchString) ==
    /\ Len(searchString) <= Len(str)
    /\ SubSeq(str, 1, Len(searchString)) = searchString

\* String.prototype.includes
Includes(str, searchString) ==
    \E k \in 0..(Len(str) - Len(searchString)) :
        SubSeq(str, k + 1, k + Len(searchString)) = searchString

\* The predicate of filteredDocuments: notes?. gives undefined (falsy) for a
\* document without notes, and a null selectedCategory matches every document.
MatchesFilter(doc, query, category) ==
    LET matchesSearch ==
            \/ Includes(ToLowerCase(doc.title), ToLowerCase(query))
            \/ /\ IsSome(doc.notes)
               /\ Includes(ToLowerCase(Get(doc.notes)), ToLowerCase(query))
        matchesCategory ==
            IF IsSome(category) THEN doc.category = Get(category) ELSE TRUE
    IN  matchesSearch /\ matchesCategory

\* documents.filter(...) of the render
FilterDocuments(docs, query, category) ==
    SelectSeq(docs, LAMBDA doc : MatchesFilter(doc, query, category))

\* the list the page shows
filteredDocuments == FilterDocuments(documents, searchQuery, selectedCategory)

\* findIndex over the list the page shows instead of the list it is given.
FindIndex_InView(docs, id) ==
    LET shown == FilterDocuments(docs, searchQuery, selectedCategory)
    IN  IF id \in IdsOf(shown)
        THEN (CHOOSE i \in 1..Len(shown) :
                  shown[i].id = id /\ \A j \in 1..(i - 1) : shown[j].id # id) - 1
        ELSE -1

\* documents.findIndex((doc) => doc.id === id): 0-based, -1 when absent
FindIndex(docs, id) ==
    IF id \in IdsOf(docs)
    THEN (CHOOSE i \in 1..Len(docs) :
              docs[i].id = id /\ \A j \in 1..(i - 1) : docs[j].id # id) - 1
    ELSE -1

\* ids the store or the memory still knows: uuidv4() never returns one of them
KnownIds ==
    IdsOf(documents) \cup IdsOf(loadDocuments(localStorage))
    \cup (IF IsSome(loadLastDeletedDocument(localStorage))
          THEN {Get(loadLastDeletedDocument(localStorage)).id} ELSE {})
    \cup (IF IsSome(documentToDelete) THEN {Get(documentToDelete).id} ELSE {})

\* The useState defaults of the dialogs: none is open and no DocumentForm is
\* mounted.
NoDialog ==
    /\ uploadDialogOpen = FALSE
    /\ droppedFile = None
    /\ buttonFile = None
    /\ editingDocument = None
    /\ file = None
    /\ fileError = None
    /\ formFile = None
    /\ inputFiles = None
    /\ isUploading = FALSE
    /\ encoding = <<>>
    /\ onSaveArg = None

\* A page reload constructs the dialogs again.
CloseDialogs ==
    /\ uploadDialogOpen' = FALSE
    /\ droppedFile' = None
    /\ buttonFile' = None
    /\ editingDocument' = None
    /\ file' = None
    /\ fileError' = None
    /\ formFile' = None
    /\ inputFiles' = None
    /\ isUploading' = FALSE
    /\ encoding' = <<>>
    /\ onSaveArg' = None

\* loadData, the mount effect: runs at every page load. The component state
\* starts from its useState defaults and is filled from the store when the
\* probe succeeds. An exception of a load function is caught by loadData: the
\* state set before it stays, the rest keeps its default.
LoadDataState(store, accept) ==
    LET probe == isStorageAvailable(store, accept)
        storage == probe.available
        gotDocuments == storage /\ ~loadDocumentsThrows(store)
        gotCategories == gotDocuments /\ ~loadCategoriesThrows(store)
    IN  [store |-> probe.store,
         documents |-> IF gotDocuments THEN loadDocuments(store) ELSE <<>>,
         categories |-> IF gotCategories THEN loadCategories(store) ELSE initialCategories,
         storageAvailable |-> storage,
         hasDeletedDoc |-> IF gotCategories THEN hasLastDeletedDocument(store) ELSE FALSE,
         storageWarning |-> gotCategories /\ PercentUsedOver80(store)]

Init ==
    /\ \E accept \in BOOLEAN :
         LET s == LoadDataState(EmptyStore, accept)
         IN  /\ localStorage = s.store
             /\ documents = s.documents
             /\ categories = s.categories
             /\ storageAvailable = s.storageAvailable
             /\ hasDeletedDoc = s.hasDeletedDoc
             /\ storageWarning = s.storageWarning
    /\ deleteDialogOpen = FALSE
    /\ documentToDelete = None
    /\ searchQuery = <<>>
    /\ selectedCategory = None
    /\ timers = <<>>
    /\ NoDialog
    /\ toasts = {}
    /\ result = NoResult

\* A page reload: the component is constructed again over the same store.
\* Whether the browser lets the page write to localStorage at all (private
\* browsing, site settings) does not change while the page is used, so the
\* probe of a reload answers as the probe of the first load did.
LoadData ==
    /\ LET s == LoadDataState(localStorage, storageAvailable)
       IN  /\ localStorage' = s.store
           /\ documents' = s.documents
           /\ categories' = s.categories
           /\ storageAvailable' = s.storageAvailable
           /\ hasDeletedDoc' = s.hasDeletedDoc
           /\ storageWarning' = s.storageWarning
    /\ deleteDialogOpen' = FALSE
    /\ documentToDelete' = None
    /\ searchQuery' = <<>>
    /\ selectedCategory' = None
    /\ timers' = <<>>
    /\ CloseDialogs
    /\ toasts' = {}
    /\ result' = NoResult

\* handleAddDocument without the revert of the in-memory collection.
HandleAddDocumentStep_NoRevert(document, accept) ==
    LET documentSize == estimateDocumentSize(document)
        updatedDocuments == Append(documents, document)
        r == saveDocuments(localStorage, updatedDocuments, accept)
    IN  /\ UNCHANGED <<categories, storageAvailable, storageWarning, deleteDialogOpen,
                       documentToDelete, hasDeletedDoc, view, timers>>
        /\ IF ~hasEnoughStorageSpace(localStorage, documentSize)
           THEN /\ toasts' = {"Storage Full: document"}
                /\ result' = NoResult
                /\ UNCHANGED <<documents, localStorage>>
           ELSE /\ documents' = updatedDocuments
                /\ IF storageAvailable
                   THEN /\ result' = r.result
                        /\ localStorage' = r.store
                        /\ toasts' = IF r.result.success THEN {"Document added"}
                                     ELSE {"Storage Error: save"}
                   ELSE /\ result' = NoResult
                        /\ toasts' = {"Document added"}
                        /\ UNCHANGED localStorage

\* handleAddDocument(document) of the render whose documents state was
\* renderedDocuments: the handler reads the collection from its closure and
\* the store as it is.
HandleAddDocumentOf(renderedDocuments, document, accept) ==
    LET documentSize == estimateDocumentSize(document)
        updatedDocuments == Append(renderedDocuments, document)
        r == saveDocuments(localStorage, updatedDocuments, accept)
    IN  /\ UNCHANGED <<categories, storageAvailable, storageWarning, deleteDialogOpen,
                       documentToDelete, hasDeletedDoc, view, timers>>
        /\ IF ~hasEnoughStorageSpace(localStorage, documentSize)
           THEN /\ toasts' = {"Storage Full: document"}
                /\ result' = NoResult
                /\ UNCHANGED <<documents, localStorage>>
           ELSE IF storageAvailable
           THEN /\ result' = r.result
                /\ localStorage' = r.store
                /\ IF ~r.result.success
                   THEN /\ toasts' = {"Storage Error: save"}
                        /\ documents' = renderedDocuments
                   ELSE /\ toasts' = {"Document added"}
                        /\ documents' = updatedDocuments
           ELSE /\ result' = NoResult
                /\ toasts' = {"Document added"}
                /\ documents' = updatedDocuments
                /\ UNCHANGED localStorage

\* handleAddDocument(document), called by the upload form with a new uuid.
HandleAddDocumentStep(document, accept) == HandleAddDocumentOf(documents, document, accept)

HandleAddDocument ==
    /\ ~deleteDialogOpen
    /\ Len(documents) < MaxDocs
    /\ \E document \in Doc, accept \in BOOLEAN :
         /\ document.id \notin KnownIds
         /\ HandleAddDocumentStep(document, accept)
    /\ UNCHANGED formVars

\* handleUpdateDocument(updatedDoc) of the render whose documents state was
\* renderedDocuments.
HandleUpdateDocumentOf(renderedDocuments, updatedDoc, accept) ==
    LET updatedDocuments == MapReplace(renderedDocuments, updatedDoc)
        oldDocIndex == FindIndex(renderedDocuments, updatedDoc.id)
        oldSize == estimateDocumentSize(renderedDocuments[oldDocIndex + 1])
        newSize == estimateDocumentSize(updatedDoc)
        r == saveDocuments(localStorage, updatedDocuments, accept)
    IN  /\ UNCHANGED <<categories, storageAvailable, storageWarning, deleteDialogOpen,
                       documentToDelete, hasDeletedDoc, view, timers>>
        /\ IF /\ oldDocIndex # -1
              /\ newSize > oldSize
              /\ ~hasEnoughStorageSpace(localStorage, newSize - oldSize)
           THEN /\ toasts' = {"Storage Full: update"}
                /\ result' = NoResult
                /\ UNCHANGED <<documents, localStorage>>
           ELSE IF storageAvailable
           THEN /\ result' = r.result
                /\ localStorage' = r.store
                /\ IF ~r.result.success
                   THEN /\ toasts' = {"Storage Error: save"}
                        /\ documents' = renderedDocuments
                   ELSE /\ toasts' = {"Document updated"}
                        /\ documents' = updatedDocuments
           ELSE /\ result' = NoResult
                /\ toasts' = {"Document updated"}
                /\ documents' = updatedDocuments
                /\ UNCHANGED localStorage

\* handleUpdateDocument(updatedDoc), called by the edit form.
HandleUpdateDocumentStep(updatedDoc, accept) ==
    HandleUpdateDocumentOf(documents, updatedDoc, accept)

HandleUpdateDocument ==
    /\ ~deleteDialogOpen
    /\ \E updatedDoc \in Doc, accept \in BOOLEAN :
         HandleUpdateDocumentStep(updatedDoc, accept)
    /\ UNCHANGED formVars

\* initiateDeleteDocument(document): a card of the list the page shows asks
\* for confirmation.
InitiateDeleteDocument ==
    /\ ~deleteDialogOpen
    /\ \E i \in 1..Len(filteredDocuments) :
         /\ documentToDelete' = Some(filteredDocuments[i])
         /\ deleteDialogOpen' = TRUE
    /\ toasts' = {}
    /\ result' = NoResult
    /\ UNCHANGED <<localStorage, documents, categories, storageAvailable, storageWarning,
                   hasDeletedDoc, view, timers, formVars>>

\* handleCancelDelete
HandleCancelDelete ==
    /\ deleteDialogOpen
    /\ deleteDialogOpen' = FALSE
    /\ documentToDelete' = None
    /\ toasts' = {}
    /\ result' = NoResult
    /\ UNCHANGED <<localStorage, documents, categories, storageAvailable, storageWarning,
                   hasDeletedDoc, view, timers, formVars>>

\* handleDeleteDocument, the confirm button of the dialog.
HandleDeleteDocumentStep(acceptDoc, acceptIndex) ==
    IF ~IsSome(documentToDelete)
    THEN /\ toasts' = {}
         /\ result' = NoResult
         /\ UNCHANGED <<localStorage, documents, categories, storageAvailable,
                        storageWarning, deleteDialogOpen, documentToDelete, hasDeletedDoc,
                        view, timers, formVars>>
    ELSE
    LET doc == Get(documentToDelete)
        index == FindIndex(documents, doc.id)
        record == storageAvailable /\ index # -1
        w == IF record
             THEN saveLastDeletedDocument(localStorage, doc, index, acceptDoc, acceptIndex)
             ELSE [store |-> localStorage, threw |-> FALSE]
        updatedDocuments == FilterOut(documents, doc.id)
        \* removing data never grows the store, so the browser always accepts
        r == saveDocuments(w.store, updatedDocuments, TRUE)
    IN  /\ deleteDialogOpen' = FALSE
        /\ UNCHANGED <<categories, storageAvailable, view, timers, formVars>>
        /\ IF w.threw
           THEN \* the exception leaves the handler: only the state set before it
                \* and the writes already made remain
                /\ localStorage' = w.store
                /\ toasts' = {}
                /\ result' = NoResult
                /\ UNCHANGED <<documents, storageWarning, documentToDelete, hasDeletedDoc>>
           ELSE /\ hasDeletedDoc' = (IF record THEN TRUE ELSE hasDeletedDoc)
                /\ documents' = updatedDocuments
                /\ IF storageAvailable
                   THEN /\ localStorage' = r.store
                        /\ result' = r.result
                        /\ storageWarning' = PercentUsedOver80(r.store)
                   ELSE /\ localStorage' = w.store
                        /\ result' = NoResult
                        /\ UNCHANGED storageWarning
                /\ documentToDelete' = None
                /\ toasts' = {"Document deleted"}

HandleDeleteDocument ==
    /\ deleteDialogOpen
    /\ \E acceptDoc \in BOOLEAN, acceptIndex \in BOOLEAN :
         HandleDeleteDocumentStep(acceptDoc, acceptIndex)

\* handleUndoDelete: the restore button and the Undo button of the toast. The
\* setDocuments updater runs before any other handler does, on the current
\* in-memory collection.
HandleUndoDeleteStep(accept) ==
    LET lastDeletedDocument == loadLastDeletedDocument(localStorage)
        lastDeletedIndex == loadLastDeletedDocumentIndex(localStorage)
        documentSize == estimateDocumentSize(Get(lastDeletedDocument))
        cleared == clearLastDeletedDocument(localStorage)
        newDocuments == RestoreInsert(documents, lastDeletedIndex, Get(lastDeletedDocument))
        r == saveDocuments(cleared, newDocuments, accept)
    IN  /\ UNCHANGED <<categories, storageAvailable, storageWarning, deleteDialogOpen,
                       documentToDelete, view, timers, formVars>>
        /\ IF ~storageAvailable
           THEN /\ toasts' = {}
                /\ result' = NoResult
                /\ UNCHANGED <<localStorage, documents, hasDeletedDoc>>
           ELSE IF ~IsSome(lastDeletedDocument)
           THEN /\ toasts' = {"Undo failed"}
                /\ result' = NoResult
                /\ UNCHANGED <<localStorage, documents, hasDeletedDoc>>
           ELSE IF ~hasEnoughStorageSpace(localStorage, documentSize)
           THEN /\ toasts' = {"Storage Full: restore"}
                /\ result' = NoResult
                /\ UNCHANGED <<localStorage, documents, hasDeletedDoc>>
           ELSE /\ hasDeletedDoc' = FALSE
                /\ localStorage' = r.store
                /\ result' = r.result
                /\ IF ~r.result.success
                   THEN /\ documents' = documents
                        /\ toasts' = {"Storage Error: restore", "Deletion undone"}
                   ELSE /\ documents' = newDocuments
                        /\ toasts' = {"Deletion undone"}

\* A restore over a reloaded collection can insert an id a second time, so the
\* collection is kept within MaxDocs here as it is in HandleAddDocument.
HandleUndoDelete ==
    /\ ~deleteDialogOpen
    /\ Len(documents) < MaxDocs \/ ~hasLastDeletedDocument(localStorage)
    /\ \E accept \in BOOLEAN : HandleUndoDeleteStep(accept)

\* handleAddCategory(category)
HandleAddCategoryStep(category, accept) ==
    LET updatedCategories == Append(categories, category)
        r == saveCategories(localStorage, updatedCategories, accept)
    IN  /\ UNCHANGED <<documents, storageAvailable, storageWarning, deleteDialogOpen,
                       documentToDelete, hasDeletedDoc, view, timers, formVars>>
        /\ IF storageAvailable
           THEN /\ result' = r.result
                /\ localStorage' = r.store
                /\ IF ~r.result.success
                   THEN /\ toasts' = {"Storage Error: category"}
                        /\ categories' = categories
                   ELSE /\ toasts' = {"Category added"}
                        /\ categories' = updatedCategories
           ELSE /\ result' = NoResult
                /\ toasts' = {"Category added"}
                /\ categories' = updatedCategories
                /\ UNCHANGED localStorage

HandleAddCategory ==
    /\ ~deleteDialogOpen
    /\ Len(categories) < Len(initialCategories) + MaxNewCategories
    /\ \E category \in NewCategories, accept \in BOOLEAN :
         HandleAddCategoryStep(category, accept)

\* setSearchQuery(e.target.value): the search box, shown while the collection
\* is not empty.
SetSearchQueryStep(query) ==
    /\ ~deleteDialogOpen
    /\ documents # <<>>
    /\ query # searchQuery
    /\ searchQuery' = query
    /\ toasts' = {}
    /\ result' = NoResult
    /\ UNCHANGED <<localStorage, documents, categories, storageAvailable, storageWarning,
                   deleteDialogOpen, documentToDelete, hasDeletedDoc, selectedCategory,
                   timers, formVars>>

\* setSelectedCategory: the category filter offers "all" (null) and the
\* categories of the page.
SetSelectedCategory ==
    /\ ~deleteDialogOpen
    /\ documents # <<>>
    /\ \E category \in {None} \cup {Some(categories[i]) : i \in 1..Len(categories)} :
         /\ category # selectedCategory
         /\ selectedCategory' = category
    /\ toasts' = {}
    /\ result' = NoResult
    /\ UNCHANGED <<localStorage, documents, categories, storageAvailable, storageWarning,
                   deleteDialogOpen, documentToDelete, hasDeletedDoc, searchQuery, timers,
                   formVars>>

Next ==
    \/ LoadData
    \/ HandleAddDocument
    \/ HandleUpdateDocument
    \/ InitiateDeleteDocument
    \/ HandleCancelDelete
    \/ HandleDeleteDocument
    \/ HandleUndoDelete
    \/ HandleAddCategory

Spec == Init /\ [][Next]_vars

(* ------------------- delete-and-restore runs (SpecUndo) ----------------- *)

\* The collection of n small documents with ids 1..n, in this order.
SmallDocs(n) == [i \in 1..n |-> Document(i, SmallLen)]

\* Stores the page may be loaded over: n small documents and no undo record,
\* or the record of a small document that is not in the collection, stored
\* with any index up to maxIndex or without its index item.
UndoStores(n, maxIndex) ==
    LET base == [EmptyStore EXCEPT ![DOCUMENTS_KEY] = Some(SmallDocs(n))]
        doc == Document(n + 1, SmallLen)
        withDoc == [base EXCEPT ![LAST_DELETED_DOCUMENT_KEY] = Some(doc)]
    IN  {base, withDoc}
        \cup {[withDoc EXCEPT ![LAST_DELETED_DOCUMENT_INDEX_KEY] = Some(i)] : i \in 0..maxIndex}

\* The state of the page after it was loaded over store.
Loaded(store) ==
    /\ LET s == LoadDataState(store, TRUE)
       IN  /\ localStorage = s.store
           /\ documents = s.documents
           /\ categories = s.categories
           /\ storageAvailable = s.storageAvailable
           /\ hasDeletedDoc = s.hasDeletedDoc
           /\ storageWarning = s.storageWarning
    /\ deleteDialogOpen = FALSE
    /\ documentToDelete = None
    /\ searchQuery = <<>>
    /\ selectedCategory = None
    /\ timers = <<>>
    /\ NoDialog
    /\ toasts = {}
    /\ result = NoResult

InitUndo == \E n \in 0..MaxUndoLen : \E store \in UndoStores(n, MaxUndoLen + 1) : Loaded(store)

UndoDelete ==
    /\ ~deleteDialogOpen
    /\ Len(documents) <= MaxUndoLen \/ ~hasLastDeletedDocument(localStorage)
    /\ \E accept \in BOOLEAN : HandleUndoDeleteStep(accept)

NextUndo ==
    \/ InitiateDeleteDocument
    \/ HandleCancelDelete
    \/ HandleDeleteDocument
    \/ UndoDelete

\* Deletions and restores over a loaded collection.
SpecUndo == InitUndo /\ [][NextUndo]_vars

InitRestore ==
    \E n \in 0..MaxRestoreLen : \E store \in UndoStores(n, MaxRestoreLen + 2) : Loaded(store)

RestoreOnce ==
    /\ toasts = {}
    /\ \E accept \in BOOLEAN : HandleUndoDeleteStep(accept)

NextRestore == RestoreOnce

\* One restore over a loaded collection and undo record.
SpecRestore == InitRestore /\ [][NextRestore]_vars

(* ---------------- deletions from a filtered list (SpecView) ------------- *)

\* Number of documents of the collections the filtered-list runs start from.
ViewLen == 3

\* Longest search query of the filtered-list runs.
MaxViewQueryLen == 1

ViewTitles == {<<"a">>, <<"b">>}

ViewCategories == {"personal", "financial"}

\* Collections of 1..ViewLen small documents with ids 1, 2, ... in this order,
\* each with any of the titles and categories.
ViewCollections ==
    UNION {[1..n -> [title : ViewTitles, category : ViewCategories]] : n \in 1..ViewLen}

ViewDocuments(texts) ==
    [i \in 1..Len(texts) |->
        [Document(i, SmallLen) EXCEPT !.title = texts[i].title,
                                      !.category = texts[i].category]]

InitView ==
    \E texts \in ViewCollections :
        Loaded([EmptyStore EXCEPT ![DOCUMENTS_KEY] = Some(ViewDocuments(texts))])

SetViewSearchQuery == \E query \in Strings(MaxViewQueryLen) : SetSearchQueryStep(query)

NextView ==
    \/ SetViewSearchQuery
    \/ SetSelectedCategory
    \/ InitiateDeleteDocument
    \/ HandleCancelDelete
    \/ HandleDeleteDocument

\* Searching, filtering and deleting over a loaded collection.
SpecView == InitView /\ [][NextView]_vars

(* ------------------ searching and filtering (SpecFilter) ---------------- *)

\* Longest collection of the filter runs.
MaxFilterLen == 2

\* Longest title of the documents of a collection of more than one document.
MaxListTitleLen == 1

FilterNotes == {None, Some(<<"b">>)}

\* Collections of n documents with ids 1..n, titles of at most titleLen
\* characters, with or without notes, in any of the categories.
FilterCollections(n, titleLen) ==
    {[i \in 1..n |->
         [Document(i, SmallLen) EXCEPT !.title = texts[i].title, !.notes = texts[i].notes,
                                       !.category = texts[i].category]] :
     texts \in [1..n -> [title : Strings(titleLen), notes : FilterNotes,
                         category : ViewCategories]]}

InitFilter ==
    \E docs \in FilterCollections(1, MaxStrLen)
                 \cup UNION {FilterCollections(n, MaxListTitleLen) : n \in 2..MaxFilterLen} :
        Loaded([EmptyStore EXCEPT ![DOCUMENTS_KEY] = Some(JsonStringify(docs))])

SetFilterSearchQuery == \E query \in Strings(MaxStrLen) : SetSearchQueryStep(query)

NextFilter ==
    \/ SetFilterSearchQuery
    \/ SetSelectedCategory

\* Typing in the search box and choosing in the category filter over a
\* loaded collection.
SpecFilter == InitFilter /\ [][NextFilter]_vars

(* ------------- calls of the storage functions (SpecStorage) ------------- *)

\* Longest collection handed to saveDocuments in the storage runs.
MaxStorageLen == 2

\* The notes of a document: the property is missing, undefined (the form
\* passes values.notes as it is) or a text.
StorageNotes == {None, Undefined, Some(<<"b">>)}

\* Well-formed collections: the document at position i has id i, any of the
\* lengths and any of the notes.
StorageCollections ==
    UNION {{[i \in 1..n |-> [Document(i, texts[i].len) EXCEPT !.notes = texts[i].notes]] :
               texts \in [1..n -> [len : DocLens, notes : StorageNotes]]} :
           n \in 0..MaxStorageLen}

StorageCategories == {<<>>, initialCategories, Append(initialCategories, "custom")}

\* What may be found under the documents key and under the categories key:
\* nothing, a text that is not JSON, or what a save wrote.
StoredDocumentItems ==
    {None, CorruptItem} \cup {Some(JsonStringify(docs)) : docs \in StorageCollections}

StoredCategoryItems == {None, CorruptItem} \cup {Some(cats) : cats \in StorageCategories}

\* The component before its mount effect ran: the useState defaults.
Mounted(store) ==
    /\ localStorage = store
    /\ documents = <<>>
    /\ categories = initialCategories
    /\ storageAvailable = TRUE
    /\ storageWarning = FALSE
    /\ deleteDialogOpen = FALSE
    /\ documentToDelete = None
    /\ hasDeletedDoc = FALSE
    /\ searchQuery = <<>>
    /\ selectedCategory = None
    /\ timers = <<>>
    /\ NoDialog
    /\ toasts = {}
    /\ result = NoResult

InitStorage ==
    \E item \in {None, CorruptItem, Some(SmallDocs(1)),
                  Some(<<Document(1, LargeLen), Document(2, LargeLen)>>)} :
        Mounted([EmptyStore EXCEPT ![DOCUMENTS_KEY] = item])

\* A call saveDocuments(docs)
SaveDocumentsCall(docs, accept) ==
    LET r == saveDocuments(localStorage, docs, accept)
    IN  /\ localStorage' = r.store
        /\ result' = IF r.threw THEN Failure("exception") ELSE r.result
        /\ UNCHANGED <<documents, categories, storageAvailable, storageWarning,
                       deleteDialogOpen, documentToDelete, hasDeletedDoc, view, timers,
                       formVars, toasts>>

SaveDocumentsCalled ==
    \E docs \in StorageCollections, accept \in BOOLEAN : SaveDocumentsCall(docs, accept)

\* A call saveCategories(cats)
SaveCategoriesCall(cats, accept) ==
    LET r == saveCategories(localStorage, cats, accept)
    IN  /\ localStorage' = r.store
        /\ result' = r.result
        /\ UNCHANGED <<documents, categories, storageAvailable, storageWarning,
                       deleteDialogOpen, documentToDelete, hasDeletedDoc, view, timers,
                       formVars, toasts>>

SaveCategoriesCalled ==
    \E cats \in StorageCategories, accept \in BOOLEAN : SaveCategoriesCall(cats, accept)

NextStorage ==
    \/ SaveDocumentsCalled
    \/ SaveCategoriesCalled

\* Saves of well-formed collections over a store.
SpecStorage == InitStorage /\ [][NextStorage]_vars

(* ---------------------- a page load (SpecLoad) -------------------------- *)

InitLoad ==
    \E documentItem \in StoredDocumentItems, categoryItem \in StoredCategoryItems :
        Mounted([EmptyStore EXCEPT ![DOCUMENTS_KEY] = documentItem,
                                   ![CATEGORIES_KEY] = categoryItem])

NextLoad == LoadData

\* One page load over what the store may hold.
SpecLoad == InitLoad /\ [][NextLoad]_vars

(* ------------- the dashboard with deferred writes (SpecDeferred) -------- *)

\* Most callbacks waiting in the timer queue.
MaxTimers == 2

\* saveDocuments of lib/storage-utils: returns nothing; an exception of
\* setItem is caught and logged. The key carries the user id, which is
\* written once, before the first document.
LibSaveDocuments(store, docs, accept) ==
    SetItem(store, DOCUMENTS_KEY, JsonStringify(docs), accept).store

\* loadDocuments of lib/storage-utils: the exception of JSON.parse is caught
LibLoadDocuments(store) ==
    IF store[DOCUMENTS_KEY] # None /\ ~JsonParseThrows(store[DOCUMENTS_KEY])
    THEN JsonParse(store[DOCUMENTS_KEY])
    ELSE <<>>

LibSaveCategories(store, cats, accept) == SetItem(store, CATEGORIES_KEY, cats, accept).store

LibLoadCategories(store) ==
    IF store[CATEGORIES_KEY] # None /\ ~JsonParseThrows(store[CATEGORIES_KEY])
    THEN JsonParse(store[CATEGORIES_KEY])
    ELSE initialCategories

\* setTimeout(() => { saveDocuments(updatedDocuments) }, 0)
SaveDocumentsTimer(updatedDocuments) ==
    [key |-> DOCUMENTS_KEY, documents |-> updatedDocuments, categories |-> <<>>]

\* setTimeout(() => { saveCategories(updatedCategories) }, 0)
SaveCategoriesTimer(updatedCategories) ==
    [key |-> CATEGORIES_KEY, documents |-> <<>>, categories |-> updatedCategories]

\* setTimeout(callback, 0) when storage is available
SetTimeout(callback) == IF storageAvailable THEN Append(timers, callback) ELSE timers

\* The three document handlers of the deferred dashboard: install
\* updatedDocuments, defer its save, toast.
DeferredInstall(updatedDocuments, toast) ==
    /\ documents' = updatedDocuments
    /\ timers' = SetTimeout(SaveDocumentsTimer(updatedDocuments))
    /\ toasts' = {toast}
    /\ result' = NoResult
    /\ UNCHANGED <<localStorage, categories, storageAvailable, storageWarning,
                   deleteDialogOpen, documentToDelete, hasDeletedDoc, view, formVars>>

DeferredAddDocumentStep(document) ==
    DeferredInstall(Append(documents, document), "Document added")

DeferredUpdateDocumentStep(updatedDoc) ==
    DeferredInstall(MapReplace(documents, updatedDoc), "Document updated")

DeferredDeleteDocumentStep(id) ==
    DeferredInstall(FilterOut(documents, id), "Document deleted")

DeferredAddCategoryStep(category) ==
    LET updatedCategories == Append(categories, category)
    IN  /\ categories' = updatedCategories
        /\ timers' = SetTimeout(SaveCategoriesTimer(updatedCategories))
        /\ toasts' = {"Category added"}
        /\ result' = NoResult
        /\ UNCHANGED <<localStorage, documents, storageAvailable, storageWarning,
                       deleteDialogOpen, documentToDelete, hasDeletedDoc, view, formVars>>

\* ids in use anywhere, the snapshots of the waiting callbacks included
DeferredKnownIds ==
    KnownIds \cup UNION {IdsOf(timers[i].documents) : i \in 1..Len(timers)}

DeferredAddDocument ==
    /\ Len(documents) < MaxDocs
    /\ Len(timers) < MaxTimers
    /\ \E document \in Doc :
         /\ document.id \notin DeferredKnownIds
         /\ DeferredAddDocumentStep(document)

DeferredUpdateDocument ==
    /\ Len(timers) < MaxTimers
    /\ \E updatedDoc \in Doc :
         /\ updatedDoc.id \in IdsOf(filteredDocuments)
         /\ DeferredUpdateDocumentStep(updatedDoc)

DeferredDeleteDocument ==
    /\ Len(timers) < MaxTimers
    /\ \E id \in IdsOf(filteredDocuments) : DeferredDeleteDocumentStep(id)

DeferredAddCategory ==
    /\ Len(timers) < MaxTimers
    /\ Len(categories) < Len(initialCategories) + MaxNewCategories
    /\ \E category \in NewCategories : DeferredAddCategoryStep(category)

\* The oldest waiting callback runs: timers of equal delay run in the order
\* they were set.
TimerFiresStep(accept) ==
    /\ timers # <<>>
    /\ LET callback == Head(timers)
       IN  localStorage' =
               IF callback.key = DOCUMENTS_KEY
               THEN LibSaveDocuments(localStorage, callback.documents, accept)
               ELSE LibSaveCategories(localStorage, callback.categories, accept)
    /\ timers' = Tail(timers)
    /\ UNCHANGED <<documents, categories, storageAvailable, storageWarning, deleteDialogOpen,
                   documentToDelete, hasDeletedDoc, view, formVars, toasts, result>>

TimerFires == \E accept \in BOOLEAN : TimerFiresStep(accept)

\* A page reload: the waiting callbacks are gone with the page; loadData of
\* the new page reads the store.
DeferredLoadData ==
    /\ documents' = (IF storageAvailable THEN LibLoadDocuments(localStorage) ELSE <<>>)
    /\ categories' =
           (IF storageAvailable THEN LibLoadCategories(localStorage) ELSE initialCategories)
    /\ timers' = <<>>
    /\ CloseDialogs
    /\ toasts' = {}
    /\ result' = NoResult
    /\ UNCHANGED <<localStorage, storageAvailable, storageWarning, deleteDialogOpen,
                   documentToDelete, hasDeletedDoc, view>>

NextDeferred ==
    \/ DeferredLoadData
    \/ DeferredAddDocument
    \/ DeferredUpdateDocument
    \/ DeferredDeleteDocument
    \/ DeferredAddCategory
    \/ TimerFires

\* The dashboard of dashboard.tsx over an empty store.
SpecDeferred == Init /\ [][NextDeferred]_vars

(* ---------------- the upload and edit form (SpecForm) ------------------- *)

MAX_FILE_SIZE == 5 * 1024 * 1024

ACCEPTED_FILE_TYPES ==
    {"application/pdf", "image/jpeg", "image/png", "image/jpg", "application/msword",
     "application/vnd.openxmlformats-officedocument.wordprocessingml.document",
     "application/vnd.ms-excel",
     "application/vnd.openxmlformats-officedocument.spreadsheetml.sheet"}

\* Sizes (bytes) of the files the user has: a small one, one of a mebibyte,
\* one of exactly the largest size validateFile lets through, one a byte
\* larger.
SmallFileSize == 100

MidFileSize == 1024 * 1024

FileSizes == {SmallFileSize, MidFileSize, MAX_FILE_SIZE, MAX_FILE_SIZE + 1}

\* MIME types the browser reports for them
UserFileTypes == {"application/pdf", "image/jpg", "text/html"}

\* File: what the form reads of it
File == [size : FileSizes, type : UserFileTypes]

\* validateFile that checks the size only.
validateFile_SizeOnly(selectedFile) ==
    IF selectedFile.size > MAX_FILE_SIZE
    THEN Some("File size should be less than 5MB")
    ELSE None

\* validateFile(selectedFile): the fileError it leaves; it returns true
\* exactly when it leaves null.
validateFile(selectedFile) ==
    IF selectedFile.size > MAX_FILE_SIZE
    THEN Some("File size should be less than 5MB")
    ELSE IF selectedFile.type \notin ACCEPTED_FILE_TYPES
         THEN Some("File type not supported")
         ELSE None

\* hasEnoughStorageSpace(file.size * 1.37)
hasEnoughStorageSpaceForFile(store, selectedFile) ==
    137 * selectedFile.size <= 100 * AvailableBytes(store)

\* reader.readAsDataURL(file): the length of "data:<type>;base64," and of
\* four characters for every three bytes
DataUrlPrefixLength == 30

DataUrlLength(selectedFile) == DataUrlPrefixLength + 4 * ((selectedFile.size + 2) \div 3)

\* The JSON length of a document whose fileContent is the data URL of the
\* file: the metadata of a small document and the content.
FileDocumentLength(selectedFile) == SmallLen + DataUrlLength(selectedFile)

\* the Dashboard state the form's own steps leave alone
dashboardVars ==
    <<localStorage, documents, categories, storageAvailable, storageWarning,
      deleteDialogOpen, documentToDelete, hasDeletedDoc, view, timers>>

\* A DocumentForm is on the page. The content of a closed dialog is not
\* rendered, so every opening constructs the form again.
FormMounted == uploadDialogOpen \/ IsSome(editingDocument)

\* Most onSubmit calls that wait for fileToBase64 at a time in the runs of
\* SpecForm.
MaxEncoding == 1

\* An onSubmit call that waits at "await fileToBase64(file)": what its
\* closure holds (the file and document of the form's render, the documents
\* of the Dashboard render whose handlers the form's onSave calls), and
\* whether the form that made the call is still on the page.
EncodingCall(attached, edited, renderedDocuments) ==
    [file |-> attached, document |-> edited, documents |-> renderedDocuments,
     mounted |-> TRUE]

\* The form of the waiting calls is taken off the page: the calls go on, and
\* the state setters they call change nothing from then on.
Orphaned(calls) == [i \in 1..Len(calls) |-> [calls[i] EXCEPT !.mounted = FALSE]]

\* calls without its i-th
WithoutCall(calls, i) == SubSeq(calls, 1, i - 1) \o SubSeq(calls, i + 1, Len(calls))

\* the waiting calls of the form that is on the page
EncodingOfForm == {i \in 1..Len(encoding) : encoding[i].mounted}

\* the waiting calls of upload forms, each of which takes a uuid for its
\* document when it goes on
EncodingUploads == {i \in 1..Len(encoding) : encoding[i].document = None}

\* The ids of the documents on the page, in the store and in the closures of
\* the waiting calls.
UsedIds ==
    KnownIds
    \cup (IF IsSome(editingDocument) THEN {Get(editingDocument).id} ELSE {})
    \cup UNION {IdsOf(encoding[i].documents) : i \in 1..Len(encoding)}
    \cup UNION {IF IsSome(encoding[i].document) THEN {Get(encoding[i].document).id} ELSE {}
                  : i \in 1..Len(encoding)}

\* uuidv4(): an id that no document has. Which one is immaterial: the
\* least of the unused ones.
FreshId == CHOOSE id \in Ids \ UsedIds : \A other \in Ids \ UsedIds : id <= other

\* the id of newDocument: document?.id || uuidv4()
SubmitId(edited) == IF IsSome(edited) THEN Get(edited).id ELSE FreshId

\* The form is constructed with initialFile: the useState defaults, then the
\* initialFile effect, which keeps the file whatever validateFile says.
MountForm(initialFile) ==
    /\ file' = initialFile
    /\ fileError' = (IF IsSome(initialFile) THEN validateFile(Get(initialFile)) ELSE None)
    /\ formFile' = initialFile
    /\ inputFiles' = None
    /\ isUploading' = FALSE
    /\ onSaveArg' = None
    /\ UNCHANGED encoding

\* The form is taken off the page while calls wait.
UnmountForm(calls) ==
    /\ file' = None
    /\ fileError' = None
    /\ formFile' = None
    /\ inputFiles' = None
    /\ isUploading' = FALSE
    /\ encoding' = Orphaned(calls)

\* The form stays as it is while calls wait.
KeepForm(calls) ==
    /\ encoding' = calls
    /\ UNCHANGED <<file, fileError, formFile, inputFiles, isUploading>>

\* openUploadDialog / the Upload Document button. The dialogs are modal: the
\* page behind an open dialog takes no input.
OpenUploadDialog ==
    /\ ~FormMounted /\ ~deleteDialogOpen
    /\ Len(documents) < MaxDocs
    /\ Ids \ KnownIds # {}
    /\ uploadDialogOpen' = TRUE
    /\ MountForm(buttonFile)
    /\ toasts' = {}
    /\ result' = NoResult
    /\ UNCHANGED <<dashboardVars, droppedFile, buttonFile, editingDocument>>

\* handleDrop of the empty list's drop zone, then handleFileDrop(file): any
\* file can be dropped. The button's effect copies the file to its state,
\* which is the form's initialFile.
HandleFileDropOf(files) ==
    /\ ~FormMounted /\ ~deleteDialogOpen
    /\ documents = <<>>
    /\ Ids \ KnownIds # {}
    /\ \E dropped \in files :
         /\ droppedFile' = Some(dropped)
         /\ buttonFile' = Some(dropped)
         /\ MountForm(Some(dropped))
    /\ uploadDialogOpen' = TRUE
    /\ toasts' = {}
    /\ result' = NoResult
    /\ UNCHANGED <<dashboardVars, editingDocument>>

HandleFileDrop == HandleFileDropOf(File)

\* handleEdit(document): the Edit entry of a card
HandleEdit ==
    /\ ~FormMounted /\ ~deleteDialogOpen
    /\ \E i \in 1..Len(filteredDocuments) : editingDocument' = Some(filteredDocuments[i])
    /\ MountForm(None)
    /\ toasts' = {}
    /\ result' = NoResult
    /\ UNCHANGED <<dashboardVars, uploadDialogOpen, droppedFile, buttonFile>>

\* handleOpenChange(false) of the upload dialog, handleCloseEdit of the edit
\* dialog: the dialog is dismissed. Its close button is not disabled while
\* the form uploads.
CloseDialog ==
    /\ FormMounted
    /\ uploadDialogOpen' = FALSE
    /\ buttonFile' = None
    /\ editingDocument' = None
    /\ UnmountForm(encoding)
    /\ toasts' = {}
    /\ result' = NoResult
    /\ UNCHANGED <<dashboardVars, droppedFile, onSaveArg>>

\* handleFileChange(e) with e.target.files = files. The browser fires change
\* when the selection of the input changed: the user chose another file, or
\* dismissed the chooser and the browser dropped the selection the input had.
HandleFileChangeStep(files) ==
    /\ files # inputFiles
    /\ inputFiles' = files
    /\ IF IsSome(files)
       THEN LET selectedFile == Get(files)
            IN  /\ fileError' = validateFile(selectedFile)
                /\ IF validateFile(selectedFile) = None
                   THEN /\ file' = files
                        /\ formFile' = files
                   ELSE /\ formFile' = None
                        /\ UNCHANGED file
       ELSE /\ fileError' = None
            /\ UNCHANGED <<file, formFile>>
    /\ toasts' = {}
    /\ result' = NoResult
    /\ UNCHANGED <<dashboardVars, uploadDialogOpen, droppedFile, buttonFile, editingDocument,
                   isUploading, encoding, onSaveArg>>

\* The file input carries disabled={isUploading}.
HandleFileChangeOf(userFiles) ==
    /\ FormMounted
    /\ ~isUploading
    /\ \E files \in {None} \cup {Some(selectedFile) : selectedFile \in userFiles} :
         HandleFileChangeStep(files)

HandleFileChange == HandleFileChangeOf(File)

\* The resolver of the form: the file field is required unless the document
\* that is edited has a file already (every stored document has one).
SchemaAccepts == IsSome(editingDocument) \/ IsSome(formFile)

\* newDocument of the onSubmit call of a form with the file attached and the
\* document edited: the edited document or a new one with id, with the
\* content of the file when one is attached.
NewDocumentOf(attached, edited, id) ==
    LET len == IF IsSome(attached) THEN FileDocumentLength(Get(attached))
               ELSE IF IsSome(edited) THEN Get(edited).len ELSE SmallLen
    IN  IF IsSome(edited)
        THEN [Get(edited) EXCEPT !.len = len]
        ELSE Document(id, len)

NewDocument(id) == NewDocumentOf(file, editingDocument, id)

\* onSubmit stops before it waits and before onSave, and reports through
\* fileError; where it had set isUploading, it has reset it.
SubmitBlocked(error) ==
    /\ fileError' = error
    /\ toasts' = {}
    /\ result' = NoResult
    /\ UNCHANGED <<dashboardVars, uploadDialogOpen, droppedFile, buttonFile, editingDocument,
                   file, formFile, inputFiles, isUploading, encoding, onSaveArg>>

\* onSave(newDocument) of an onSubmit call, with calls left waiting. Of the
\* upload dialog it is handleSave: handleAddDocument, which closes the dialog
\* and forgets the dropped file when it succeeds, then
\* handleOpenChange(false). Of the edit dialog it is handleSaveEdit:
\* handleUpdateDocument, then setEditingDocument(null). The handlers are
\* those of the render the call was made in; the dialog they close is the
\* one on the page.
OnSaveOf(renderedDocuments, edited, attached, newDocument, accept, calls) ==
    /\ onSaveArg' = Some([document |-> newDocument, file |-> attached])
    /\ IF IsSome(edited)
       THEN /\ HandleUpdateDocumentOf(renderedDocuments, newDocument, accept)
            /\ editingDocument' = None
            /\ UNCHANGED <<droppedFile, uploadDialogOpen, buttonFile>>
            /\ IF IsSome(editingDocument) THEN UnmountForm(calls) ELSE KeepForm(calls)
       ELSE /\ HandleAddDocumentOf(renderedDocuments, newDocument, accept)
            /\ droppedFile' = (IF toasts' = {"Document added"} THEN None ELSE droppedFile)
            /\ uploadDialogOpen' = FALSE
            /\ buttonFile' = None
            /\ UNCHANGED editingDocument
            /\ IF uploadDialogOpen THEN UnmountForm(calls) ELSE KeepForm(calls)

OnSave(newDocument, accept) ==
    OnSaveOf(documents, editingDocument, file, newDocument, accept, encoding)

\* onSubmit reaches "await fileToBase64(file)" with isUploading set.
StartEncoding ==
    /\ isUploading' = TRUE
    /\ encoding' = Append(encoding, EncodingCall(file, editingDocument, documents))
    /\ toasts' = {}
    /\ result' = NoResult
    /\ UNCHANGED <<dashboardVars, uploadDialogOpen, droppedFile, buttonFile, editingDocument,
                   file, fileError, formFile, inputFiles, onSaveArg>>

\* onSubmit(values), which handleSubmit calls when the resolver accepts the
\* values, up to the point where it returns or waits for fileToBase64. With
\* no file attached it does not wait and runs to its end.
OnSubmitStep(accept) ==
    LET newDocument == NewDocument(SubmitId(editingDocument))
    IN  IF IsSome(fileError) THEN SubmitBlocked(fileError)
        ELSE IF file = None /\ editingDocument = None THEN SubmitBlocked(fileError)
        ELSE IF IsSome(file) /\ ~hasEnoughStorageSpaceForFile(localStorage, Get(file))
        THEN SubmitBlocked(Some("Not enough storage space"))
        ELSE IF IsSome(file)
        THEN StartEncoding
        ELSE IF ~hasEnoughStorageSpace(localStorage, estimateDocumentSize(newDocument))
        THEN SubmitBlocked(Some("Not enough storage space"))
        ELSE OnSave(newDocument, accept)

\* The submit button without its disabled attribute.
SubmitEnabled_Always == TRUE

\* The submit button carries disabled={isUploading}.
SubmitEnabled == ~isUploading

\* The user submits the form, while fewer than maxCalls calls wait.
OnSubmitOf(maxCalls) ==
    /\ FormMounted
    /\ SubmitEnabled
    /\ SchemaAccepts
    /\ Len(encoding) < maxCalls
    /\ editingDocument = None =>
         /\ Len(documents) < MaxDocs
         /\ Cardinality(Ids \ UsedIds) > Cardinality(EncodingUploads)
    /\ \E accept \in BOOLEAN : OnSubmitStep(accept)

OnSubmit == OnSubmitOf(MaxEncoding)

\* An onSubmit call that waited stops before onSave: its catch block or its
\* second capacity check reports through fileError and resets isUploading,
\* which changes the form when it is still on the page.
EncodingBlocked(call, error, calls) ==
    /\ encoding' = calls
    /\ IF call.mounted
       THEN /\ fileError' = error
            /\ isUploading' = FALSE
       ELSE UNCHANGED <<fileError, isUploading>>
    /\ toasts' = {}
    /\ result' = NoResult
    /\ UNCHANGED <<dashboardVars, uploadDialogOpen, droppedFile, buttonFile, editingDocument,
                   file, formFile, inputFiles, onSaveArg>>

\* The promise of fileToBase64 settles and the i-th waiting onSubmit call
\* runs to its end. readOk: the promise resolved (reader.onload with a
\* string); otherwise it rejected (reader.onerror). thrown: a statement of
\* the outer try block threw before onSave took effect, which the outer
\* catch block reports; the finally block resets isUploading.
OnSubmitResumedStep(i, accept, readOk, thrown) ==
    LET call == encoding[i]
        calls == WithoutCall(encoding, i)
        newDocument == NewDocumentOf(call.file, call.document, SubmitId(call.document))
    IN  IF ~readOk
        THEN EncodingBlocked(call, Some("Error processing file"), calls)
        ELSE IF thrown
        THEN EncodingBlocked(call, Some("Error processing form"), calls)
        ELSE IF ~hasEnoughStorageSpace(localStorage, estimateDocumentSize(newDocument))
        THEN EncodingBlocked(call, Some("Not enough storage space"), calls)
        ELSE OnSaveOf(call.documents, call.document, call.file, newDocument, accept, calls)

OnSubmitResumed ==
    \E i \in 1..Len(encoding), accept \in BOOLEAN, readOk \in BOOLEAN, thrown \in BOOLEAN :
        OnSubmitResumedStep(i, accept, readOk, thrown)

\* The page is loaded over no documents or over a document with a large file.
InitForm ==
    \E item \in {None, Some(<<Document(1, LargeLen)>>)} :
        Loaded([EmptyStore EXCEPT ![DOCUMENTS_KEY] = item])

NextForm ==
    \/ OpenUploadDialog
    \/ HandleFileDrop
    \/ HandleEdit
    \/ CloseDialog
    \/ HandleFileChange
    \/ OnSubmit
    \/ OnSubmitResumed

SpecForm == InitForm /\ [][NextForm]_vars

(* ------------- submissions that wait for their file (SpecSubmit) -------- *)

\* Most onSubmit calls that wait for fileToBase64 at a time in the runs of
\* SpecSubmit: one of the form on the page and one of a form that was closed,
\* or two of one form if the form lets a second one start.
MaxSubmitEncoding == 2

\* The files the user has in these runs: a small one, one that is too
\* large for the first capacity check of onSubmit, and one validateFile
\* rejects.
SubmitFiles ==
    {[size |-> SmallFileSize, type |-> "application/pdf"],
     [size |-> MAX_FILE_SIZE, type |-> "application/pdf"],
     [size |-> SmallFileSize, type |-> "text/html"]}

\* JSON length of a document that leaves a few hundred bytes of the quota:
\* beside it the small file passes the first capacity check of onSubmit and
\* its document fails the second.
FullLen == 2621200

\* The page is loaded over no documents or over a store that is nearly full.
InitSubmit ==
    \E item \in {None, Some(<<Document(1, FullLen)>>)} :
        Loaded([EmptyStore EXCEPT ![DOCUMENTS_KEY] = item])

NextSubmit ==
    \/ OpenUploadDialog
    \/ HandleFileDropOf(SubmitFiles)
    \/ HandleEdit
    \/ CloseDialog
    \/ HandleFileChangeOf(SubmitFiles)
    \/ OnSubmitOf(MaxSubmitEncoding)
    \/ OnSubmitResumed

SpecSubmit == InitSubmit /\ [][NextSubmit]_vars

\* fileToBase64 settles: the FileReader of every waiting call fires load or
\* error in the end.
SpecSubmitFair == SpecSubmit /\ WF_vars(OnSubmitResumed)

(* ------------- calls of the capacity functions (SpecUsage) -------------- *)

\* What the store may hold when the capacity is asked for: under each key
\* nothing or what the page wrote there, up to more than the whole budget.
UsageStores ==
    {[EmptyStore EXCEPT ![DOCUMENTS_KEY] = documentItem,
                        ![LAST_DELETED_DOCUMENT_KEY] = deletedItem,
                        ![LAST_DELETED_DOCUMENT_INDEX_KEY] = indexItem,
                        ![CATEGORIES_KEY] = categoryItem] :
        documentItem \in {None, Some(<<>>), Some(SmallDocs(1)),
                          Some(<<Document(1, LargeLen), Document(2, LargeLen)>>)},
        deletedItem \in {None, Some(Document(3, SmallLen)), Some(Document(3, LargeLen))},
        indexItem \in {None, Some(0)},
        categoryItem \in {None, Some(initialCategories)}}

InitUsage == \E store \in UsageStores : Mounted(store)

\* A call getLocalStorageUsage(): result holds what it returned.
GetLocalStorageUsageCalled ==
    /\ result' = [used |-> UsedBytes(localStorage), available |-> AvailableBytes(localStorage)]
    /\ UNCHANGED <<localStorage, documents, categories, storageAvailable, storageWarning,
                   deleteDialogOpen, documentToDelete, hasDeletedDoc, view, timers,
                   formVars, toasts>>

\* A call hasEnoughStorageSpace(dataSize) with a size at, next to or far from
\* the available capacity.
HasEnoughStorageSpaceCalled ==
    /\ \E dataSize \in {0, LOCALSTORAGE_LIMIT, AvailableBytes(localStorage),
                        AvailableBytes(localStorage) + 1,
                        Max(0, AvailableBytes(localStorage) - 1)} :
         result' = [dataSize |-> dataSize,
                    enough |-> hasEnoughStorageSpace(localStorage, dataSize)]
    /\ UNCHANGED <<localStorage, documents, categories, storageAvailable, storageWarning,
                   deleteDialogOpen, documentToDelete, hasDeletedDoc, view, timers,
                   formVars, toasts>>

NextUsage ==
    \/ GetLocalStorageUsageCalled
    \/ HasEnoughStorageSpaceCalled

SpecUsage == InitUsage /\ [][NextUsage]_vars

(* ------------------- calls of formatBytes (SpecFormat) ------------------ *)

\* A byte count is written in base 1024, lowest digit first, so that counts
\* of 1024^4 and more can be given: <<512, 1>> is 1536, <<0, 0, 1>> is
\* 1024 * 1024. The highest digit of a positive count is not 0.
MaxFormatDigits == 5

FormatDigits == {0, 1, 512, 1023}

ByteCounts ==
    UNION {{digits \in [1..n -> FormatDigits] : n = 1 \/ digits[n] # 0} :
           n \in 1..MaxFormatDigits}

\* Math.floor(Math.log(bytes) / Math.log(k)) of a positive count
FloorLog1024(bytes) == Len(bytes) - 1

\* the digit of 1024^e, 0 when the count has none
DigitAt(bytes, e) == IF e >= 0 /\ e < Len(bytes) THEN bytes[e + 1] ELSE 0

\* (bytes / Math.pow(k, i)).toFixed(2), in hundredths: the highest digit is
\* the whole part, the two digits below it give the fraction (what lies
\* below them is less than a ten-thousandth), rounded to the nearest.
ToFixed2(bytes, i) ==
    LET fraction == DigitAt(bytes, i - 1) * 1024 + DigitAt(bytes, i - 2)
    IN  DigitAt(bytes, i) * 100 + (2 * fraction * 100 + 1024 * 1024) \div (2 * 1024 * 1024)

DigitChars == <<"0", "1", "2", "3", "4", "5", "6", "7", "8", "9">>

\* the decimal digits of a natural number
RECURSIVE NaturalText(_)
NaturalText(n) ==
    IF n < 10 THEN <<DigitChars[n + 1]>>
    ELSE NaturalText(n \div 10) \o <<DigitChars[(n % 10) + 1]>>

\* Number.parseFloat(text) + "": the number without the zeros toFixed put at
\* its end
ParseFloatText(hundredths) ==
    LET whole == NaturalText(hundredths \div 100)
        cents == hundredths % 100
    IN  IF cents = 0 THEN whole
        ELSE IF cents % 10 = 0 THEN whole \o <<".", DigitChars[(cents \div 10) + 1]>>
        ELSE whole \o <<".", DigitChars[(cents \div 10) + 1], DigitChars[(cents % 10) + 1]>>

sizes == <<"Bytes", "KB", "MB", "GB">>

\* sizes[i]: undefined beyond the array, which string concatenation writes
\* as "undefined"
SizesAt(i) == IF i + 1 \in DOMAIN sizes THEN sizes[i + 1] ELSE "undefined"

\* formatBytes(bytes): the characters of the number, a space, the unit
formatBytes(bytes) ==
    IF bytes = <<0>> THEN <<"0", " ", "Bytes">>
    ELSE LET i == FloorLog1024(bytes)
         IN  ParseFloatText(ToFixed2(bytes, i)) \o <<" ", SizesAt(i)>>

InitFormat == Mounted(EmptyStore)

\* The one call formatBytes(bytes) of a run: result holds the argument and
\* the text.
FormatBytesCalled ==
    /\ "text" \notin DOMAIN result
    /\ \E bytes \in ByteCounts : result' = [bytes |-> bytes, text |-> formatBytes(bytes)]
    /\ UNCHANGED <<localStorage, documents, categories, storageAvailable, storageWarning,
                   deleteDialogOpen, documentToDelete, hasDeletedDoc, view, timers,
                   formVars, toasts>>

NextFormat == FormatBytesCalled

SpecFormat == InitFormat /\ [][NextFormat]_vars

(* ------------------------------- claims -------------------------------- *)

\* No two documents of the collection have the same id.
UniqueIds(docs) == \A i \in 1..Len(docs) : \A j \in 1..Len(docs) : docs[i].id = docs[j].id => i = j

Range(seq) == {seq[i] : i \in 1..Len(seq)}

\* The undo ledger holds nothing: neither of its two items is stored.
LedgerEmpty(store) ==
    /\ ~IsSome(store[LAST_DELETED_DOCUMENT_KEY])
    /\ ~IsSome(store[LAST_DELETED_DOCUMENT_INDEX_KEY])

\* The documents the ledger of store can give back: at most one.
LedgerDocs(store) ==
    IF IsSome(store[LAST_DELETED_DOCUMENT_KEY])
    THEN {Get(store[LAST_DELETED_DOCUMENT_KEY])}
    ELSE {}

\* A step of the confirm button that deleted (it ended with its toast).
DeleteCompletes ==
    /\ deleteDialogOpen
    /\ \E acceptDoc \in BOOLEAN, acceptIndex \in BOOLEAN :
         HandleDeleteDocumentStep(acceptDoc, acceptIndex)
    /\ "Document deleted" \in toasts'

\* A step of handleUndoDelete.
UndoStep == ~deleteDialogOpen /\ \E accept \in BOOLEAN : HandleUndoDeleteStep(accept)

\* C1: undo is single-level. Whatever the ledger held before (the record of
\* an earlier deletion A included), a completed delete of B leaves exactly B
\* and B's index in the ledger; a restore inserts no document but the one the
\* ledger holds, a restore that changes the collection puts that document in
\* and leaves the ledger empty, so a document deleted earlier stays absent
\* and no further restore can bring it back.
C1_SingleLevelUndo ==
    [][/\ (DeleteCompletes /\ storageAvailable) =>
             /\ localStorage'[LAST_DELETED_DOCUMENT_KEY] = documentToDelete
             /\ localStorage'[LAST_DELETED_DOCUMENT_INDEX_KEY]
                    = Some(FindIndex(documents, Get(documentToDelete).id))
       /\ UndoStep =>
             /\ Range(documents') \subseteq Range(documents) \cup LedgerDocs(localStorage)
             /\ (documents' # documents) =>
                    /\ LedgerDocs(localStorage) \subseteq Range(documents')
                    /\ LedgerEmpty(localStorage')
      ]_vars

\* A successful restore has just run, the ledger is empty, and a document
\* the page was loaded with is missing from the collection: it was deleted
\* before the document that the restore gave back.
C1_Witness ==
    /\ toasts = {"Deletion undone"}
    /\ result = Success
    /\ LedgerEmpty(localStorage)
    /\ \E i \in 1..MaxUndoLen : \E k \in 1..Len(documents) :
           /\ i \notin IdsOf(documents)
           /\ documents[k].id > i

\* C2: restore is idempotent-safe. A restore over an empty ledger (as it is
\* right after a successful restore) ends with the nothing-to-restore toast
\* and changes neither the in-memory collection nor anything stored; a
\* restore changes the collection only by inserting one document, only when
\* the ledger holds a record, and it leaves the ledger empty, so one recorded
\* deletion is inserted at most once however often restore is triggered.
C2_RestoreIdempotent ==
    [][UndoStep =>
          /\ (storageAvailable /\ LedgerDocs(localStorage) = {}) =>
                 /\ toasts' = {"Undo failed"}
                 /\ UNCHANGED <<documents, localStorage, hasDeletedDoc>>
          /\ (documents' # documents) =>
                 /\ LedgerDocs(localStorage) # {}
                 /\ Len(documents') = Len(documents) + 1
          /\ ("Deletion undone" \in toasts') => LedgerEmpty(localStorage')
      ]_vars

\* A restore found nothing to restore over a stored, non-empty collection
\* that the memory mirrors: the state a second restore leaves.
C2_Witness ==
    /\ toasts = {"Undo failed"}
    /\ storageAvailable
    /\ LedgerEmpty(localStorage)
    /\ ~hasDeletedDoc
    /\ documents # <<>>
    /\ documents = loadDocuments(localStorage)

\* The 0-based position C3 names for a record with stored index item and a
\* collection of n documents: min(i, n), and n when no index is stored.
ClampedPosition(indexItem, n) ==
    IF ~IsSome(indexItem) THEN n
    ELSE IF Get(indexItem) <= n THEN Get(indexItem) ELSE n

\* C3: a successful restore puts the ledger's document at position min(i, n)
\* of the collection of n documents (at the end when i > n or when no index
\* is stored), the documents before that position stay where they were and
\* the later ones move one place to the right in their order.
C3_RestorePosition ==
    [][(UndoStep /\ toasts' = {"Deletion undone"}) =>
          LET n == Len(documents)
              p == ClampedPosition(localStorage[LAST_DELETED_DOCUMENT_INDEX_KEY], n)
          IN  /\ Len(documents') = n + 1
              /\ Some(documents'[p + 1]) = localStorage[LAST_DELETED_DOCUMENT_KEY]
              /\ \A k \in 1..p : documents'[k] = documents[k]
              /\ \A k \in (p + 1)..n : documents'[k + 1] = documents[k]
      ]_vars

\* The example of C3: six documents (five minus the deleted one, plus two
\* added), a record with index 2; the restored document (id 7) is back at
\* index 2 and the four later documents follow it.
C3_Witness ==
    /\ toasts = {"Deletion undone"}
    /\ Len(documents) = 7
    /\ documents[3].id = 7
    /\ \A k \in 4..7 : documents[k].id = k - 1

\* A step of handleAddDocument(document) / handleUpdateDocument(document).
AddStep(document) == \E accept \in BOOLEAN : HandleAddDocumentStep(document, accept)

UpdateStep(document) == \E accept \in BOOLEAN : HandleUpdateDocumentStep(document, accept)

\* C4: an add whose estimated size (two bytes per character of the
\* document's JSON) is greater than the available capacity ends with the
\* capacity toast, calls no save and changes neither the in-memory
\* collection nor anything stored, the undo ledger included.
C4_AddRejectedWhenFull ==
    [][\A document \in Doc :
          (AddStep(document) /\ 2 * document.len > AvailableBytes(localStorage)) =>
              /\ toasts' = {"Storage Full: document"}
              /\ result' = NoResult
              /\ UNCHANGED <<documents, localStorage>>
      ]_vars

\* An add was rejected for capacity while documents are stored.
C4_Witness ==
    /\ toasts = {"Storage Full: document"}
    /\ storageAvailable
    /\ loadDocuments(localStorage) # <<>>
    /\ AvailableBytes(localStorage) < 2 * LargeLen

\* C5: when the save of an add or of an update fails, the in-memory
\* collection and everything stored are as before the operation, and the
\* only toast is the storage error.
C5_FailedSaveRollsBack ==
    [][\A document \in Doc :
          ((AddStep(document) \/ UpdateStep(document)) /\ ~result'.success) =>
              /\ documents' = documents
              /\ localStorage' = localStorage
              /\ toasts' = {"Storage Error: save"}
      ]_vars

\* The save of an add or of an update failed, over a non-empty collection.
C5_Witness ==
    /\ toasts = {"Storage Error: save"}
    /\ ~result.success
    /\ documents # <<>>

\* C6: write-through consistency. While storage is available the in-memory
\* collection equals the collection stored under the documents key (the
\* state after every completed add, update, delete and restore included).
C6_WriteThrough == storageAvailable => documents = loadDocuments(localStorage)

\* C7: after a completed delete with storage available, the stored
\* collection does not contain the deleted document (the one the ledger now
\* holds).
C7_DeletePersists ==
    (storageAvailable /\ toasts = {"Document deleted"}) =>
        \A d \in LedgerDocs(localStorage) : d.id \notin IdsOf(loadDocuments(localStorage))

\* The collections a handler can hand to saveDocuments in the current state.
SaveCandidates ==
    {documents}
    \cup {Append(documents, d) : d \in Doc}
    \cup {MapReplace(documents, d) : d \in Doc}
    \cup {FilterOut(documents, id) : id \in Ids}
    \cup {RestoreInsert(documents, loadLastDeletedDocumentIndex(localStorage), d) :
             d \in LedgerDocs(localStorage)}

\* C8: capacity admission is conservative. For every collection whose
\* serialised size (two bytes per character) is greater than the available
\* capacity, saveDocuments returns a failure and the store it leaves is the
\* store it was given, whatever the browser would have answered.
C8_SaveConservative ==
    \A docs \in SaveCandidates : \A accept \in BOOLEAN :
        (2 * DocumentsJsonLength(docs) > AvailableBytes(localStorage)) =>
            LET r == saveDocuments(localStorage, docs, accept)
            IN  /\ ~r.result.success
                /\ r.store = localStorage

\* A handler's save has just been refused by the pre-check: the collection
\* it wanted to write is not what is stored.
C8_Witness ==
    /\ result = Failure("Not enough storage space")
    /\ \E docs \in SaveCandidates :
           /\ 2 * DocumentsJsonLength(docs) > AvailableBytes(localStorage)
           /\ docs # loadDocuments(localStorage)

\* C9: a restore whose save fails leaves the in-memory collection unchanged
\* and the ledger empty, and what it reports is the error and not a
\* successful restoration.
C9_FailedRestoreTerminal ==
    [][(UndoStep /\ ~result'.success) =>
          /\ documents' = documents
          /\ LedgerEmpty(localStorage')
          /\ "Storage Error: restore" \in toasts'
          /\ "Deletion undone" \notin toasts'
      ]_vars

\* C10: restore is admission-controlled. When the ledger's document needs
\* (two bytes per character) more than the available capacity, the restore
\* ends with the capacity toast and nothing changes: the in-memory
\* collection, everything stored (the record stays in the ledger) and the
\* restore button. A restore that makes the store larger leaves its usage
\* within the quota.
C10_RestoreAdmission ==
    [][UndoStep =>
          /\ (/\ storageAvailable
              /\ \E d \in LedgerDocs(localStorage) : 2 * d.len > AvailableBytes(localStorage))
             => /\ toasts' = {"Storage Full: restore"}
                /\ UNCHANGED <<documents, localStorage, hasDeletedDoc>>
          /\ (UsedBytes(localStorage') > UsedBytes(localStorage))
             => UsedBytes(localStorage') <= LOCALSTORAGE_LIMIT
      ]_vars

\* A restore was rejected for capacity and the record is still in the ledger.
C10_Witness ==
    /\ toasts = {"Storage Full: restore"}
    /\ \E d \in LedgerDocs(localStorage) : 2 * d.len > AvailableBytes(localStorage)
    /\ IsSome(localStorage[LAST_DELETED_DOCUMENT_INDEX_KEY])

\* C11: the index a completed delete writes to the undo record is the
\* position (0-based) of the deleted document in the whole in-memory
\* collection, whatever the search query and the category filter are; where
\* the position in the list the page shows differs, it is not that one.
C11_IndexInFullCollection ==
    [][(DeleteCompletes /\ storageAvailable) =>
          \E k \in 1..Len(documents) :
              /\ documents[k] = Get(documentToDelete)
              /\ \A j \in 1..(k - 1) : documents[j].id # documents[k].id
              /\ localStorage'[LAST_DELETED_DOCUMENT_INDEX_KEY] = Some(k - 1)
      ]_vars

\* A delete has completed from a list that hid a document standing before
\* the deleted one: the recorded index is greater than the position the
\* document had in the list shown.
C11_Witness ==
    /\ toasts = {"Document deleted"}
    /\ \E d \in LedgerDocs(localStorage) :
           LET i == loadLastDeletedDocumentIndex(localStorage)
               before == RestoreInsert(documents, i, d)
               shown == FilterDocuments(before, searchQuery, selectedCategory)
           IN  /\ i > 0
               /\ \E k \in 1..Len(shown) : shown[k] = d /\ k - 1 < i

\* C12: an update of a document of the collection whose new version needs
\* (two bytes per character) more than the old version by more than the
\* available capacity ends with the capacity toast, calls no save and
\* changes neither the in-memory collection nor anything stored; an update
\* that does not make the document larger never ends with that toast.
C12_UpdateRejectedByDelta ==
    [][\A document \in Doc : \A k \in 1..Len(documents) :
          (/\ UpdateStep(document)
           /\ documents[k].id = document.id
           /\ \A j \in 1..(k - 1) : documents[j].id # document.id) =>
              /\ (2 * document.len - 2 * documents[k].len > AvailableBytes(localStorage)) =>
                     /\ toasts' = {"Storage Full: update"}
                     /\ result' = NoResult
                     /\ UNCHANGED <<documents, localStorage>>
              /\ (document.len <= documents[k].len) =>
                     "Storage Full: update" \notin toasts'
      ]_vars

\* An update that made a stored document larger was rejected for capacity.
C12_Witness ==
    /\ toasts = {"Storage Full: update"}
    /\ storageAvailable
    /\ \E k \in 1..Len(documents) :
           /\ documents[k].len = SmallLen
           /\ 2 * (LargeLen - SmallLen) > AvailableBytes(localStorage)
    /\ documents = loadDocuments(localStorage)

\* C13: every write that makes a stored item larger was admitted by a
\* capacity query of the same operation: the bytes it adds to the item (two
\* per character) are within the capacity that was available when the
\* operation began.
C13_WritesAdmitted ==
    [][\A key \in StorageKeys :
          (ItemLength(localStorage', key) > ItemLength(localStorage, key)) =>
              hasEnoughStorageSpace(localStorage,
                  2 * (ItemLength(localStorage', key) - ItemLength(localStorage, key)))
      ]_vars

\* C14: in every reachable state no two documents of the in-memory
\* collection, and no two documents of the stored collection, share an id.
C14_UniqueIds == UniqueIds(documents) /\ UniqueIds(loadDocuments(localStorage))

\* C15: loadDocuments never lets an exception out, whatever is stored under
\* the documents key, and it returns the empty collection when nothing is
\* stored there and when what is stored is not valid JSON.
C15_LoadNeverThrows ==
    /\ ~loadDocumentsThrows(localStorage)
    /\ (localStorage[DOCUMENTS_KEY] = None \/ IsCorrupt(localStorage[DOCUMENTS_KEY]))
           => loadDocuments(localStorage) = <<>>

\* The two collections hold the same documents in the same order: every
\* property reads the same in both.
SameDocuments(a, b) ==
    /\ Len(a) = Len(b)
    /\ \A i \in 1..Len(a) :
           /\ a[i].id = b[i].id
           /\ a[i].len = b[i].len
           /\ a[i].title = b[i].title
           /\ a[i].category = b[i].category
           /\ PropertyRead(a[i].notes) = PropertyRead(b[i].notes)

C17_SaveNeverThrows ==
    [][\A docs \in StorageCollections :
          (\E accept \in BOOLEAN : SaveDocumentsCall(docs, accept)) =>
              LET fits == 2 * DocumentsJsonLength(docs) <= AvailableBytes(localStorage)
              IN  /\ result' \in {Success, Failure("Not enough storage space"),
                                  Failure("Storage full")}
                  /\ result'.success =>
                         SameDocuments(loadDocuments(localStorage'), docs)
                  /\ ~fits => result' = Failure("Not enough storage space")
                  /\ (fits /\ ~result'.success) => result' = Failure("Storage full")
                  /\ ~result'.success => localStorage' = localStorage
      ]_vars

\* The browser refused a write that the pre-check had admitted, over a
\* stored collection.
C17_Witness ==
    /\ result = Failure("Storage full")
    /\ loadDocuments(localStorage) # <<>>
    /\ AvailableBytes(localStorage) > 2 * LargeLen

\* Two characters that differ at most in case.
SameLetter(c, d) == c = d \/ {c, d} = {"a", "A"}

\* text contains query as a substring, case ignored.
ContainsIgnoringCase(text, query) ==
    \E k \in 0..(Len(text) - Len(query)) :
        \A i \in 1..Len(query) : SameLetter(text[k + i], query[i])

\* The positions of the documents filter(query, categoryId) is to return.
Selected ==
    {i \in 1..Len(documents) :
        /\ \/ ContainsIgnoringCase(documents[i].title, searchQuery)
           \/ /\ IsSome(documents[i].notes)
              /\ ContainsIgnoringCase(Get(documents[i].notes), searchQuery)
        /\ selectedCategory = None \/ documents[i].category = Get(selectedCategory)}

\* The list shown is made of the selected documents, each once, in the order
\* of the collection.
FilterExact ==
    /\ Len(filteredDocuments) = Cardinality(Selected)
    /\ \A k \in 1..Len(filteredDocuments) :
           \E i \in Selected :
               /\ Cardinality({j \in Selected : j <= i}) = k
               /\ filteredDocuments[k] = documents[i]

\* C18: the list the page shows consists of exactly the documents whose
\* title or notes contain the query as a substring, case ignored, and whose
\* category is the selected one when one is selected, in collection order
\* (all documents for the empty query and no category); changing the query
\* or the category changes neither the in-memory collection nor anything
\* stored, the undo ledger included.
C18_FilterExact ==
    /\ FilterExact
    /\ [][FilterExact'
             /\ ((SetFilterSearchQuery \/ SetSelectedCategory) =>
                    UNCHANGED <<documents, localStorage>>)
         ]_vars

\* A query in upper case shows the second document only, whose title has the
\* letter in lower case, with a category selected.
C18_Witness ==
    /\ searchQuery = <<"A">>
    /\ selectedCategory # None
    /\ Len(documents) = 2
    /\ Len(filteredDocuments) = 1
    /\ filteredDocuments[1] = documents[2]
    /\ documents[2].title = <<"a">>

\* No write is waiting and what is stored is what is in memory.
Converged ==
    (storageAvailable /\ timers = <<>>) =>
        /\ SameDocuments(LibLoadDocuments(localStorage), documents)
        /\ LibLoadCategories(localStorage) = categories

\* C19: in the dashboard with deferred writes every add, update, delete and
\* add-category puts, at the end of the timer queue, the write of exactly
\* the collection it has just installed in memory; the callbacks run one at
\* a time, oldest first; and whenever no write is waiting, the stored
\* collections equal the in-memory ones.
C19_DeferredWritesConverge ==
    [][/\ (/\ storageAvailable
           /\ \/ \E document \in Doc : \/ DeferredAddDocumentStep(document)
                                       \/ DeferredUpdateDocumentStep(document)
              \/ \E id \in Ids : DeferredDeleteDocumentStep(id)) =>
              timers' = Append(timers, SaveDocumentsTimer(documents'))
       /\ (storageAvailable /\ \E category \in NewCategories : DeferredAddCategoryStep(category)) =>
              timers' = Append(timers, SaveCategoriesTimer(categories'))
       /\ TimerFires => timers' = Tail(timers)
       /\ Converged'
      ]_vars

\* The upload constraints: at most 5 MiB, and a MIME type of the allow-list
\* PDF, JPEG (under either of its two labels), PNG, DOC, DOCX, XLS, XLSX.
AllowList ==
    {"application/pdf", "image/jpeg", "image/jpg", "image/png", "application/msword",
     "application/vnd.openxmlformats-officedocument.wordprocessingml.document",
     "application/vnd.ms-excel",
     "application/vnd.openxmlformats-officedocument.spreadsheetml.sheet"}

MeetsUploadConstraints(attached) ==
    attached.size <= 5 * 1024 * 1024 /\ attached.type \in AllowList

\* C20: whatever files are dropped and chosen and whenever the form is
\* submitted, a document that is handed to onSave with a newly attached
\* file carries a file of at most 5 MiB and of an allow-listed MIME type,
\* and so does every onSubmit call that waits for the encoding of its file:
\* a form that holds a file that breaks a constraint neither encodes it nor
\* hands a document to onSave.
C20_UploadConstraints ==
    [][((IsSome(onSaveArg') /\ IsSome(Get(onSaveArg').file))
            => MeetsUploadConstraints(Get(Get(onSaveArg').file)))
       /\ (\A i \in 1..Len(encoding') : MeetsUploadConstraints(Get(encoding'[i].file)))
       /\ ((IsSome(file) /\ ~MeetsUploadConstraints(Get(file)) /\ OnSubmit)
               => (onSaveArg' = onSaveArg /\ encoding' = encoding))]_vars

\* A file that was dropped on the empty list reached onSave and is stored.
C20_Witness ==
    /\ IsSome(onSaveArg)
    /\ IsSome(Get(onSaveArg).file)
    /\ documents = <<Get(onSaveArg).document>>
    /\ loadDocuments(localStorage) = documents

\* C21: the probe of a page load leaves the store as it was, without its
\* test key; and while the probe has failed, no step writes to the store, an
\* add that passes the capacity check appends to the in-memory collection,
\* an update replaces in it, a confirmed delete removes from it, an added
\* category is appended to the in-memory categories, every handler runs to
\* its end, and restore changes nothing.
C21_DegradedMode ==
    [][/\ LoadData => (localStorage' = localStorage /\ localStorage'[TEST_KEY] = None)
       /\ ~storageAvailable =>
            /\ localStorage' = localStorage
            /\ \A document \in Doc :
                 (AddStep(document) /\ toasts' = {"Document added"})
                     => documents' = Append(documents, document)
            /\ \A document \in Doc :
                 (UpdateStep(document) /\ toasts' = {"Document updated"})
                     => documents' = MapReplace(documents, document)
            /\ (HandleDeleteDocument /\ IsSome(documentToDelete))
                   => /\ documents' = FilterOut(documents, Get(documentToDelete).id)
                      /\ toasts' = {"Document deleted"}
            /\ HandleAddCategory => Len(categories') = Len(categories) + 1
            /\ HandleUndoDelete =>
                   UNCHANGED <<documents, categories, hasDeletedDoc, storageWarning>>]_vars

\* Without storage a document was added and another deleted: the page holds
\* one document and the store holds nothing.
C21_Witness ==
    /\ ~storageAvailable
    /\ toasts = {"Document deleted"}
    /\ Len(documents) = 1
    /\ localStorage = EmptyStore

\* C22: whenever storage is available, the estimated size of a document is
\* at most the available capacity and the browser accepts the write, adding
\* the document appends it as the last element of the in-memory collection
\* and the store holds that collection.
C22_AddAdmittedWhenItFits ==
    [][\A document \in Doc :
          (/\ storageAvailable
           /\ HandleAddDocumentStep(document, TRUE)
           /\ estimateDocumentSize(document) <= AvailableBytes(localStorage))
          => (/\ documents' = Append(documents, document)
              /\ loadDocuments(localStorage') = documents')]_vars

\* C23: an update that succeeds leaves the collection with its length and
\* order, with the new version at every position that held the updated id
\* and every other document as it was; an update that is rejected, or whose
\* id is not in the collection, leaves the collection as it was.
C23_UpdateInPlace ==
    [][\A document \in Doc :
          UpdateStep(document) =>
              /\ Len(documents') = Len(documents)
              /\ \A i \in 1..Len(documents) :
                   documents'[i] =
                       IF documents[i].id = document.id /\ toasts' = {"Document updated"}
                       THEN document
                       ELSE documents[i]]_vars

\* An update succeeded on a collection of two documents whose second is the
\* large version, and the store holds that collection.
C23_Witness ==
    /\ toasts = {"Document updated"}
    /\ Len(documents) = 2
    /\ documents[1] = Document(1, SmallLen)
    /\ documents[2] = Document(2, LargeLen)
    /\ loadDocuments(localStorage) = documents

\* The number of characters of the keys and values the store holds.
RECURSIVE TotalCharacters(_, _)
TotalCharacters(store, keys) ==
    IF keys = {} THEN 0
    ELSE LET key == CHOOSE k \in keys : TRUE
             here == IF store[key] = None THEN 0
                     ELSE KeyLength(key)
                          + (IF IsCorrupt(store[key]) THEN Len(store[key])
                             ELSE ValueLength(key, Get(store[key])))
         IN  here + TotalCharacters(store, keys \ {key})

\* available as the claim gives it, with QUOTA = 5 MiB
ClaimedAvailable(used) ==
    IF used <= 5 * 1024 * 1024 THEN 5 * 1024 * 1024 - used ELSE 0

C25_FormatBytesUnit ==
    "text" \in DOMAIN result =>
        LET bytes == result.bytes
            text == result.text
            index == IF Len(bytes) - 1 > 3 THEN 3 ELSE Len(bytes) - 1
        IN  /\ text[Len(text)] \in {"Bytes", "KB", "MB", "GB"}
            /\ bytes # <<0>> => text[Len(text)] = <<"Bytes", "KB", "MB", "GB">>[index + 1]
            /\ bytes = <<0>> => text = <<"0", " ", "Bytes">>
            /\ bytes = <<512, 1>> => text = <<"1", ".", "5", " ", "KB">>
            /\ bytes = <<0, 0, 1>> => text = <<"1", " ", "MB">>

\* C26: a form has at most one onSubmit call waiting for the encoding of its
\* file; its submit button is disabled exactly while such a call waits, the
\* uploading flag being set exactly then; and whenever the flag is set it is
\* reset later, whichever way the call ends (capacity rejection, encode
\* error, exception, success) or the form is closed.
C26_OneSubmissionInFlight ==
    /\ [](/\ Cardinality(EncodingOfForm) <= 1
          /\ isUploading <=> (EncodingOfForm # {})
          /\ FormMounted => (SubmitEnabled <=> (EncodingOfForm = {}))
          /\ ~FormMounted => ~isUploading)
    /\ (isUploading ~> ~isUploading)

\* The encoding of a submitted file failed, and the form is on the page with
\* its controls enabled again.
C26_Witness ==
    /\ FormMounted
    /\ fileError = Some("Error processing file")
    /\ ~isUploading
    /\ EncodingOfForm = {}

\* C27: in every reachable state the document of the undo ledger, when there
\* is one, is not a document of the in-memory collection.
C27_LedgerNotInCollection ==
    IsSome(loadLastDeletedDocument(localStorage))
        => Get(loadLastDeletedDocument(localStorage)).id \notin IdsOf(documents)

\* C28: after every step the undo ledger holds its document item exactly
\* when it holds its index item, and a step that stores a document in the
\* ledger stores with it the position that document had in the collection,
\* and no step changes the index item alone.
C28_LedgerKeysTogether ==
    [][LET document == localStorage[LAST_DELETED_DOCUMENT_KEY]
           index == localStorage[LAST_DELETED_DOCUMENT_INDEX_KEY]
       IN  /\ IsSome(document') <=> IsSome(index')
           /\ (IsSome(document') /\ document' # document)
                  => index' = Some(FindIndex(documents, Get(document').id))
           /\ (index' # index) => (document' # document)]_vars

\* docs with document put in at position index (counted from 0)
InsertAt(docs, index, document) ==
    SubSeq(docs, 1, index) \o <<document>> \o SubSeq(docs, index + 1, Len(docs))

\* The collection that the record of the undo ledger and the collection left
\* by the delete make up.
BeforeDelete(store, docs) ==
    InsertAt(docs, Get(store[LAST_DELETED_DOCUMENT_INDEX_KEY]),
             Get(store[LAST_DELETED_DOCUMENT_KEY]))

C30_RestoreButtonMatchesLedger ==
    storageAvailable => (hasDeletedDoc <=> hasLastDeletedDocument(localStorage))

====
